---- MODULE Spec2Model ----
(***************************************************************************)
(* A model of open-impact-v2: the websocket ConnectionManager and its      *)
(* handlers (app/main.py, app/services/websocket.py), the lazy read-side   *)
(* caches (app/services/annual_data.py, monthly_data.py) and the weather   *)
(* aggregation pipeline (pipelines/).                                      *)
(*                                                                         *)
(* The three parts do not share state; each has its own specification      *)
(* (SpecMain / SpecServices, SpecCache, SpecBuild) that leaves the other   *)
(* parts' variables unchanged.                                             *)
(***************************************************************************)
EXTENDS Integers, Sequences, FiniteSets, TLC

(***************************************************************************)
(* Bounds of the model.                                                    *)
(***************************************************************************)
\* websocket clients that may connect during a run
NumSockets == 2
\* text messages one client may send before it closes
MaxMsgs == 1
\* POST /items requests (each broadcasts "New item added")
NumItems == 1

Sockets == 1..NumSockets
Items == (NumSockets + 1)..(NumSockets + NumItems)
\* asyncio tasks: one websocket_endpoint per socket, one create_item per POST
Tasks == Sockets \cup Items

VARIABLES
    \* ---- websocket part
    manager,             \* which ConnectionManager class serves: "main" | "services"
    active_connections,  \* ConnectionManager.active_connections (a list)
    client,              \* per socket, the peer: "new" | "open" | "closed"
    pc,                  \* per task, where it is suspended
    bmsg,                \* per task, the message of the broadcast it is in
    bidx,                \* per task, elements the list iterator has consumed
    bconn,               \* per task, the connection whose send_text is awaited
    bdisc,               \* per task, disconnected_connections
    err,                 \* per task, the exception that escaped it
    msgs,                \* per socket, text messages received from it
    attempts,            \* per task, connections sent to in its current broadcast
    bstart,              \* per task, the registry when its current broadcast began
    ret,                 \* how the last broadcast() that ended, ended
    \* ---- read-side caches
    annual_file,         \* data/output/final_yearly.csv on disk
    monthly_file,        \* data/output/final_monthly.csv on disk
    annual_data_cache,   \* annual_data._annual_data_cache
    monthly_data_cache,  \* monthly_data._monthly_data_cache
    calls,               \* per table, get_*_data() calls made
    opens,               \* per table, times the file was opened
    assigns,             \* per table, times the cache variable was assigned
    last,                \* what the last get_*_data() call did
    \* ---- build_datasets (pipelines/cli/main.py)
    cities_opt,          \* the --cities option
    config,              \* the configuration mapping: city -> folder, name
    disk,                \* the data folder: folder name -> its CSV files
    yearly_out,          \* the yearly output file
    monthly_out,         \* the monthly output file
    out_dir,             \* whether the output directory exists
    bpc,                 \* where the run is: "start" | "loop" | "done" | "failed"
    berr,                \* the exception that ended the run
    cities_list,         \* the resolved city list
    yearly_frames,       \* per-city yearly tables built so far
    monthly_frames,      \* per-city monthly tables built so far
    loads                \* the cities load_city_df was called for, in order

wsVars == <<manager, active_connections, client, pc, bmsg, bidx, bconn, bdisc,
            err, msgs, attempts, bstart, ret>>

cacheVars == <<annual_file, monthly_file, annual_data_cache, monthly_data_cache,
               calls, opens, assigns, last>>

buildVars == <<cities_opt, config, disk, yearly_out, monthly_out, out_dir, bpc,
               berr, cities_list, yearly_frames, monthly_frames, loads>>

vars == <<wsVars, cacheVars, buildVars>>

(***************************************************************************)
(* Sequence helpers.                                                       *)
(***************************************************************************)
InList(x, s) == \E i \in 1..Len(s) : s[i] = x

\* index of the first occurrence of x in s (x must occur)
FirstIndex(x, s) == CHOOSE i \in 1..Len(s) : s[i] = x /\ \A j \in 1..(i-1) : s[j] # x

\* list.remove(x) on a list that holds x: drops the first occurrence
ListRemove(s, x) ==
    LET k == FirstIndex(x, s)
    IN  SubSeq(s, 1, k - 1) \o SubSeq(s, k + 1, Len(s))

(***************************************************************************)
(* ConnectionManager, as written twice in the repository:                  *)
(*   app/main.py              removes with list.remove (raises ValueError  *)
(*                            when the element is absent);                 *)
(*   app/services/websocket.py  tests membership before removing.          *)
(* Each removal yields the new list and whether ValueError was raised.     *)
(***************************************************************************)
Managers == {"main", "services"}

\* app/main.py: self.active_connections.remove(websocket)
disconnect_main(s, ws) ==
    IF InList(ws, s)
    THEN [list |-> ListRemove(s, ws), raised |-> FALSE]
    ELSE [list |-> s, raised |-> TRUE]

\* the guard of app/services/websocket.py dropped
disconnect_services_unguarded(s, ws) == disconnect_main(s, ws)

\* app/services/websocket.py: if websocket in list: list.remove(websocket)
disconnect_services(s, ws) ==
    IF InList(ws, s)
    THEN [list |-> ListRemove(s, ws), raised |-> FALSE]
    ELSE [list |-> s, raised |-> FALSE]

disconnect(m, s, ws) ==
    IF m = "main" THEN disconnect_main(s, ws) ELSE disconnect_services(s, ws)

\* the second loop of broadcast(): remove every marked connection, in order;
\* a ValueError leaves the loop with the later marks still in the list
RECURSIVE prune_main(_, _)
prune_main(s, disc) ==
    IF disc = << >> THEN [list |-> s, raised |-> FALSE]
    ELSE IF InList(Head(disc), s)
         THEN prune_main(ListRemove(s, Head(disc)), Tail(disc))
         ELSE [list |-> s, raised |-> TRUE]

RECURSIVE prune_services(_, _)
prune_services(s, disc) ==
    IF disc = << >> THEN [list |-> s, raised |-> FALSE]
    ELSE IF InList(Head(disc), s)
         THEN prune_services(ListRemove(s, Head(disc)), Tail(disc))
         ELSE prune_services(s, Tail(disc))

\* a broadcast that marks the failed connections and removes none
prune_nothing(m, s, disc) == [list |-> s, raised |-> FALSE]

\* the removal loop of the manager in use
prune(m, s, disc) ==
    IF m = "main" THEN prune_main(s, disc) ELSE prune_services(s, disc)

(***************************************************************************)
(* Messages.  A message is <<kind, task, n>>: "says" is the n-th text of   *)
(* socket `task`, "left" and "item" have n = 0.                            *)
(***************************************************************************)
Msg(kind, t, n) == <<kind, t, n>>
NoMsg == Msg("none", 0, 0)

\* no broadcast() has ended yet
NoReturn == [task |-> 0, msg |-> NoMsg, sent |-> << >>, failed |-> << >>,
             start |-> << >>, before |-> << >>, raised |-> FALSE]

\* where a task goes when its broadcast returns normally
AfterBroadcast(m) == IF m[1] = "says" THEN "receive" ELSE "done"

\* send_text to a peer that is open succeeds; to a peer that has closed it
\* raises, or is dropped silently when the server has not seen the close yet
SendOutcomes(c) == IF client[c] = "open" THEN {TRUE} ELSE {TRUE, FALSE}

(***************************************************************************)
(* broadcast(), from one suspension to the next.  Task t holds a list      *)
(* iterator that has consumed idx elements of the live list `list`; disc   *)
(* is disconnected_connections.  Either the iterator yields list[idx+1]    *)
(* and the task suspends in send_text, or the iterator is exhausted and    *)
(* the marked connections are removed (no await in that loop) and          *)
(* broadcast returns or raises.                                            *)
(***************************************************************************)
BroadcastProceed(t, list, idx, disc, att, m) ==
    IF idx < Len(list)
    THEN /\ active_connections' = list
         /\ pc' = [pc EXCEPT ![t] = "send"]
         /\ bidx' = [bidx EXCEPT ![t] = idx + 1]
         /\ bconn' = [bconn EXCEPT ![t] = list[idx + 1]]
         /\ bdisc' = [bdisc EXCEPT ![t] = disc]
         /\ attempts' = [attempts EXCEPT ![t] = Append(att, list[idx + 1])]
         /\ bstart' = [bstart EXCEPT ![t] = IF idx = 0 THEN list ELSE @]
         /\ bmsg' = [bmsg EXCEPT ![t] = m]
         /\ UNCHANGED <<err, ret>>
    ELSE LET r == prune(manager, list, disc)
         IN  /\ active_connections' = r.list
             /\ pc' = [pc EXCEPT ![t] = IF r.raised THEN "failed" ELSE AfterBroadcast(m)]
             /\ err' = [err EXCEPT ![t] = IF r.raised THEN "ValueError:broadcast" ELSE @]
             /\ bidx' = [bidx EXCEPT ![t] = 0]
             /\ bconn' = [bconn EXCEPT ![t] = 0]
             /\ bdisc' = [bdisc EXCEPT ![t] = << >>]
             /\ attempts' = [attempts EXCEPT ![t] = << >>]
             /\ bstart' = [bstart EXCEPT ![t] = << >>]
             /\ bmsg' = [bmsg EXCEPT ![t] = NoMsg]
             /\ ret' = [task |-> t, msg |-> m, sent |-> att, failed |-> disc,
                        start |-> IF idx = 0 THEN list ELSE bstart[t],
                        before |-> list, raised |-> r.raised]

(***************************************************************************)
(* websocket_endpoint and create_item.                                     *)
(***************************************************************************)
\* a client opens /ws: connect() accepts it and appends it to the list
\* (sockets are numbered in the order they connect)
Connect(w) ==
    /\ pc[w] = "idle"
    /\ \A v \in Sockets : v < w => pc[v] # "idle"
    /\ client' = [client EXCEPT ![w] = "open"]
    /\ active_connections' = Append(active_connections, w)
    /\ pc' = [pc EXCEPT ![w] = "receive"]
    /\ UNCHANGED <<manager, bmsg, bidx, bconn, bdisc, err, msgs, attempts, bstart, ret>>
    /\ UNCHANGED <<cacheVars, buildVars>>

\* receive_text returns a text: broadcast("Client says: ...") starts
Receive(w) ==
    /\ pc[w] = "receive"
    /\ client[w] = "open"
    /\ msgs[w] < MaxMsgs
    /\ msgs' = [msgs EXCEPT ![w] = @ + 1]
    /\ BroadcastProceed(w, active_connections, 0, << >>, << >>,
                        Msg("says", w, msgs[w] + 1))
    /\ UNCHANGED <<manager, client>>
    /\ UNCHANGED <<cacheVars, buildVars>>

\* the peer goes away (browser refresh, context manager exit in the tests)
ClientClose(w) ==
    /\ client[w] = "open"
    /\ client' = [client EXCEPT ![w] = "closed"]
    /\ UNCHANGED <<manager, active_connections, pc, bmsg, bidx, bconn, bdisc,
                   err, msgs, attempts, bstart, ret>>
    /\ UNCHANGED <<cacheVars, buildVars>>

\* receive_text raises WebSocketDisconnect: disconnect(), then
\* broadcast("A client left the chat") starts
ReceiveDisconnect(w) ==
    /\ pc[w] = "receive"
    /\ client[w] = "closed"
    /\ LET r == disconnect(manager, active_connections, w)
       IN  IF r.raised
           THEN /\ pc' = [pc EXCEPT ![w] = "failed"]
                /\ err' = [err EXCEPT ![w] = "ValueError:disconnect"]
                /\ UNCHANGED <<active_connections, bmsg, bidx, bconn, bdisc, attempts,
                               bstart, ret>>
           ELSE BroadcastProceed(w, r.list, 0, << >>, << >>, Msg("left", w, 0))
    /\ UNCHANGED <<manager, client, msgs>>
    /\ UNCHANGED <<cacheVars, buildVars>>

\* POST /items: after the commit, broadcast("New item added: ...") starts
CreateItem(i) ==
    /\ pc[i] = "idle"
    /\ BroadcastProceed(i, active_connections, 0, << >>, << >>, Msg("item", i, 0))
    /\ UNCHANGED <<manager, client, msgs>>
    /\ UNCHANGED <<cacheVars, buildVars>>

\* the awaited send_text of task t completes (ok) or raises (~ok); the
\* exception is caught and the connection marked, and the loop goes on
SendDone(t, ok) ==
    /\ pc[t] = "send"
    /\ ok \in SendOutcomes(bconn[t])
    /\ BroadcastProceed(t, active_connections, bidx[t],
                        IF ok THEN bdisc[t] ELSE Append(bdisc[t], bconn[t]),
                        attempts[t], bmsg[t])
    /\ UNCHANGED <<manager, client, msgs>>
    /\ UNCHANGED <<cacheVars, buildVars>>

WsInit(m) ==
    /\ manager = m
    /\ active_connections = << >>
    /\ client = [w \in Sockets |-> "new"]
    /\ pc = [t \in Tasks |-> "idle"]
    /\ bmsg = [t \in Tasks |-> NoMsg]
    /\ bidx = [t \in Tasks |-> 0]
    /\ bconn = [t \in Tasks |-> 0]
    /\ bdisc = [t \in Tasks |-> << >>]
    /\ err = [t \in Tasks |-> "none"]
    /\ msgs = [w \in Sockets |-> 0]
    /\ attempts = [t \in Tasks |-> << >>]
    /\ bstart = [t \in Tasks |-> << >>]
    /\ ret = NoReturn

WsNext ==
    \/ \E w \in Sockets : Connect(w)
    \/ \E w \in Sockets : Receive(w)
    \/ \E w \in Sockets : ClientClose(w)
    \/ \E w \in Sockets : ReceiveDisconnect(w)
    \/ \E i \in Items : CreateItem(i)
    \/ \E t \in Tasks : \E ok \in BOOLEAN : SendDone(t, ok)

(***************************************************************************)
(* The read-side caches: app/services/annual_data.py and monthly_data.py.  *)
(*                                                                         *)
(* A CSV row, as csv.DictReader yields it, is a function from the header's *)
(* column names to strings.  A file on disk is missing, or holds a table;  *)
(* badAt = k > 0 says that reading its k-th row raises (an undecodable     *)
(* byte, a csv.Error), badAt = 0 that it reads to the end.                 *)
(***************************************************************************)
\* --cities not given
NoOption == [given |-> FALSE, parts |-> << >>]

\* calls made to each of get_annual_data and get_monthly_data
MaxCalls == 3

Kinds == {"annual", "monthly"}

YearlyRow1 == [c \in {"ville", "NOM_USUEL", "AAAA", "TMM"} |->
                 CASE c = "ville" -> "Paris" [] c = "NOM_USUEL" -> "ORLY"
                   [] c = "AAAA" -> "2020" [] OTHER -> "12.5"]
\* a file whose header lacks the ville column
YearlyRow2 == [c \in {"NOM_USUEL", "AAAA", "TMM"} |->
                 CASE c = "NOM_USUEL" -> "ORLY" [] c = "AAAA" -> "2021"
                   [] OTHER -> "13.1"]
MonthlyRow1 == [c \in {"ville", "NOM_USUEL", "AAAA", "MM", "MOIS", "TMM"} |->
                 CASE c = "ville" -> "Paris" [] c = "NOM_USUEL" -> "ORLY"
                   [] c = "AAAA" -> "2020" [] c = "MM" -> "1"
                   [] c = "MOIS" -> "Janvier" [] OTHER -> "4.2"]
MonthlyRow2 == [c \in {"ville", "NOM_USUEL", "AAAA", "MM", "TMM"} |->
                 CASE c = "ville" -> "Paris" [] c = "NOM_USUEL" -> "ORLY"
                   [] c = "AAAA" -> "2020" [] c = "MM" -> "2" [] OTHER -> "5.0"]

CsvTables(k) ==
    IF k = "annual"
    THEN {<< >>, <<YearlyRow1>>, <<YearlyRow2, YearlyRow1>>}
    ELSE {<< >>, <<MonthlyRow1>>, <<MonthlyRow1, MonthlyRow2>>}

MissingFile == [exists |-> FALSE, rows |-> << >>, badAt |-> 0]
FileStates(k) ==
    {MissingFile} \cup
    {[exists |-> TRUE, rows |-> t, badAt |-> b] : t \in CsvTables(k), b \in {0}} \cup
    UNION {{[exists |-> TRUE, rows |-> t, badAt |-> b] : b \in 1..Len(t)} : t \in CsvTables(k)}

\* the cache variable: None, or the list it was assigned
None == [loaded |-> FALSE, table |-> << >>]
Loaded(t) == [loaded |-> TRUE, table |-> t]

\* row.pop(key, "")
Pop(row, key) == IF key \in DOMAIN row THEN row[key] ELSE ""
Rest(row, keys) == [c \in (DOMAIN row) \ keys |-> row[c]]

\* annual_data._reshape_row
reshape_row_annual(row) ==
    [ville |-> Pop(row, "ville"), NOM_USUEL |-> Pop(row, "NOM_USUEL"),
     AAAA |-> Pop(row, "AAAA"),
     data |-> Rest(row, {"ville", "NOM_USUEL", "AAAA"})]

\* monthly_data._reshape_row
reshape_row_monthly(row) ==
    [ville |-> Pop(row, "ville"), NOM_USUEL |-> Pop(row, "NOM_USUEL"),
     AAAA |-> Pop(row, "AAAA"), MM |-> Pop(row, "MM"), MOIS |-> Pop(row, "MOIS"),
     data |-> Rest(row, {"ville", "NOM_USUEL", "AAAA", "MM", "MOIS"})]

reshape_row(k, row) ==
    IF k = "annual" THEN reshape_row_annual(row) ELSE reshape_row_monthly(row)

\* a load that stores the rows as it reads them, and so keeps the rows
\* read before a failure
load_data_partial(k, file, cache) ==
    IF ~file.exists THEN [raised |-> TRUE, assigned |-> FALSE, cache |-> cache]
    ELSE IF file.badAt > 0
         THEN [raised |-> TRUE, assigned |-> TRUE,
               cache |-> Loaded([i \in 1..(file.badAt - 1) |-> reshape_row(k, file.rows[i])])]
         ELSE [raised |-> FALSE, assigned |-> TRUE,
               cache |-> Loaded([i \in 1..Len(file.rows) |-> reshape_row(k, file.rows[i])])]

\* load_annual_data / load_monthly_data: open the file (raises when it is
\* missing), read and reshape every row (raises part-way on a bad row), and
\* only then assign the cache variable
load_data(k, file, cache) ==
    IF ~file.exists THEN [raised |-> TRUE, assigned |-> FALSE, cache |-> cache]
    ELSE IF file.badAt > 0
         THEN [raised |-> TRUE, assigned |-> FALSE, cache |-> cache]
         ELSE [raised |-> FALSE, assigned |-> TRUE,
               cache |-> Loaded([i \in 1..Len(file.rows) |-> reshape_row(k, file.rows[i])])]

\* a test for an empty cache rather than for an unset one
cache_is_falsy(cache) == ~cache.loaded \/ cache.table = << >>

\* get_*_data: `if _cache is None`
cache_is_none(cache) == ~cache.loaded

FileOf(k) == IF k = "annual" THEN annual_file ELSE monthly_file
CacheOf(k) == IF k = "annual" THEN annual_data_cache ELSE monthly_data_cache

\* one whole call of get_annual_data / get_monthly_data (no await in it)
GetData(k) ==
    /\ calls[k] < MaxCalls
    /\ calls' = [calls EXCEPT ![k] = @ + 1]
    /\ IF cache_is_none(CacheOf(k))
       THEN LET r == load_data(k, FileOf(k), CacheOf(k))
            IN  /\ opens' = [opens EXCEPT ![k] = @ + 1]
                /\ assigns' = [assigns EXCEPT ![k] = IF r.assigned THEN @ + 1 ELSE @]
                /\ IF k = "annual"
                   THEN annual_data_cache' = r.cache /\ UNCHANGED monthly_data_cache
                   ELSE monthly_data_cache' = r.cache /\ UNCHANGED annual_data_cache
                /\ last' = [kind |-> k, opened |-> TRUE, raised |-> r.raised,
                            value |-> IF r.raised THEN << >> ELSE r.cache.table]
       ELSE /\ last' = [kind |-> k, opened |-> FALSE, raised |-> FALSE,
                        value |-> CacheOf(k).table]
            /\ UNCHANGED <<opens, assigns, annual_data_cache, monthly_data_cache>>
    /\ UNCHANGED <<annual_file, monthly_file>>
    /\ UNCHANGED <<wsVars, buildVars>>

GetAnnualData == GetData("annual")
GetMonthlyData == GetData("monthly")

\* outside the process: a pipeline run rewrites an output file, or the file
\* is removed or damaged
WriteAnnualFile ==
    /\ \E f \in FileStates("annual") : f # annual_file /\ annual_file' = f
    /\ UNCHANGED <<monthly_file, annual_data_cache, monthly_data_cache, calls,
                   opens, assigns, last>>
    /\ UNCHANGED <<wsVars, buildVars>>

WriteMonthlyFile ==
    /\ \E f \in FileStates("monthly") : f # monthly_file /\ monthly_file' = f
    /\ UNCHANGED <<annual_file, annual_data_cache, monthly_data_cache, calls,
                   opens, assigns, last>>
    /\ UNCHANGED <<wsVars, buildVars>>

NoCall == [kind |-> "none", opened |-> FALSE, raised |-> FALSE, value |-> << >>]

\* the caches of a process that serves no data request
CacheIdle ==
    /\ annual_file = MissingFile
    /\ monthly_file = MissingFile
    /\ annual_data_cache = None
    /\ monthly_data_cache = None
    /\ calls = [k \in Kinds |-> 0]
    /\ opens = [k \in Kinds |-> 0]
    /\ assigns = [k \in Kinds |-> 0]
    /\ last = NoCall

\* a fresh process: both module globals are None; the files are whatever
\* the last pipeline run left
InitCache ==
    /\ annual_file \in FileStates("annual")
    /\ monthly_file \in FileStates("monthly")
    /\ annual_data_cache = None
    /\ monthly_data_cache = None
    /\ calls = [k \in Kinds |-> 0]
    /\ opens = [k \in Kinds |-> 0]
    /\ assigns = [k \in Kinds |-> 0]
    /\ last = NoCall

CacheNext ==
    \/ GetAnnualData
    \/ GetMonthlyData
    \/ WriteAnnualFile
    \/ WriteMonthlyFile

(***************************************************************************)
(* The weather pipeline: pipelines/data_processing/build_weather_datasets  *)
(*                                                                         *)
(* A table is a sequence of rows (records).  Metric values are integers,   *)
(* in tenths where the files hold one decimal.  A cell that may be empty   *)
(* (NaN, None) is a sequence: << >> when empty, <<v>> when it holds v.     *)
(***************************************************************************)
Null == << >>
Some(v) == <<v>>

\* MAPPING_MOIS
MAPPING_MOIS ==
    [m \in 1..12 |->
        CASE m = 1 -> "Janvier" [] m = 2 -> "Fevrier" [] m = 3 -> "Mars"
          [] m = 4 -> "Avril" [] m = 5 -> "Mai" [] m = 6 -> "Juin"
          [] m = 7 -> "Juillet" [] m = 8 -> "Aout" [] m = 9 -> "Septembre"
          [] m = 10 -> "Octobre" [] m = 11 -> "Novembre" [] OTHER -> "Decembre"]

\* a lookup that raises KeyError for a month the mapping does not hold
map_mois_strict(mm) ==
    IF mm \in DOMAIN MAPPING_MOIS THEN Some(MAPPING_MOIS[mm]) ELSE <<"KeyError">>

\* Series.map(mapping_mois): the name, or NaN for a value that is no key
map_mois(mm) ==
    IF mm \in DOMAIN MAPPING_MOIS THEN Some(MAPPING_MOIS[mm]) ELSE Null

\* station names, in string order
StationNames == <<"BRON", "ORLY", "ROISSY">>
StationRank(name) == CHOOSE i \in 1..Len(StationNames) : StationNames[i] = name

\* tuples of integers, compared as Python compares tuples
RECURSIVE LexLess(_, _)
LexLess(a, b) ==
    IF a = << >> \/ b = << >> THEN FALSE
    ELSE IF Head(a) # Head(b) THEN Head(a) < Head(b)
    ELSE LexLess(Tail(a), Tail(b))

\* the elements of a finite set of integer tuples, ascending
RECURSIVE SortedTuples(_)
SortedTuples(S) ==
    IF S = {} THEN << >>
    ELSE LET m == CHOOSE x \in S : \A y \in S \ {x} : LexLess(x, y)
         IN  <<m>> \o SortedTuples(S \ {m})

RECURSIVE SelectRows(_, _)
SelectRows(df, keep) ==
    IF df = << >> THEN << >>
    ELSE (IF Head(df) \in keep THEN <<Head(df)>> ELSE << >>) \o SelectRows(Tail(df), keep)

RECURSIVE Concat(_)
Concat(frames) ==
    IF frames = << >> THEN << >> ELSE Head(frames) \o Concat(Tail(frames))

Range(f) == {f[i] : i \in DOMAIN f}

RECURSIVE SumOf(_)
SumOf(vals) == IF vals = << >> THEN 0 ELSE Head(vals) + SumOf(Tail(vals))

\* an aggregate that keeps the first value it meets ('first')
FirstOf(vals) == vals[1]

\* 'max' and 'min'
MaxOf(vals) == CHOOSE v \in Range(vals) : \A u \in Range(vals) : u <= v
MinOf(vals) == CHOOSE v \in Range(vals) : \A u \in Range(vals) : v <= u

\* round(n / d) to the nearest integer, ties to even, as numpy rounds
RoundDiv(n, d) ==
    LET q == n \div d
        r == n % d
    IN  IF 2 * r < d THEN q
        ELSE IF 2 * r > d THEN q + 1
        ELSE IF q % 2 = 0 THEN q ELSE q + 1

\* the values held by a sequence of cells (NaN skipped)
RECURSIVE Present(_)
Present(cells) ==
    IF cells = << >> THEN << >> ELSE Head(cells) \o Present(Tail(cells))

\* mean, NaN skipped, rounded to one decimal; NaN when every cell is NaN
MeanRounded(cells) ==
    LET v == Present(cells)
    IN  IF v = << >> THEN Null ELSE Some(RoundDiv(SumOf(v), Len(v)))

Column(df, c) == [i \in 1..Len(df) |-> df[i][c]]

(***************************************************************************)
(* load_city_df.  The folder's files are listed by iterdir in an order the *)
(* file system chooses: `order` is that order (a sequence of indices).     *)
(***************************************************************************)
\* --year-max default
YearMaxDefault == 2026

Decorate(row, mois) ==
    [NOM_USUEL |-> row.NOM_USUEL, AAAAMM |-> row.AAAAMM, TMM |-> row.TMM,
     TXAB |-> row.TXAB, TXMIN |-> row.TXMIN, NBJTX25 |-> row.NBJTX25,
     RR |-> row.RR, RRAB |-> row.RRAB,
     AAAA |-> row.AAAAMM \div 100, MM |-> row.AAAAMM % 100, MOIS |-> mois]

\* df['NOM_USUEL'] raises KeyError when no file read has that column
HasColumn(raw, c) == raw = << >> \/ \E i \in 1..Len(raw) : c \in DOMAIN raw[i]

\* a loader that raises on a month that is no key of the mapping
load_city_df_strict(city, cfg, dsk, order, year_max_exclusive) ==
    IF city \notin DOMAIN cfg.stations THEN [raised |-> "KeyError", df |-> << >>]
    ELSE LET folder == cfg.stations[city].folder
             station_name == cfg.stations[city].name
         IN  IF folder \notin DOMAIN dsk
             THEN [raised |-> "FileNotFoundError", df |-> << >>]
             ELSE IF order = << >>
             THEN [raised |-> "ValueError", df |-> << >>]
             ELSE LET raw == Concat([i \in 1..Len(order) |-> dsk[folder][order[i]].rows])
                  IN  IF ~HasColumn(raw, "NOM_USUEL")
                      THEN [raised |-> "KeyError", df |-> << >>]
                      ELSE
                  LET own == SelectRows(raw, {r \in Range(raw) : "NOM_USUEL" \in DOMAIN r
                                                                  /\ r.NOM_USUEL = station_name})
                      dec == [i \in 1..Len(own) |-> Decorate(own[i], map_mois_strict(own[i].AAAAMM % 100))]
                  IN  IF \E i \in 1..Len(dec) : dec[i].MOIS = <<"KeyError">>
                      THEN [raised |-> "KeyError", df |-> << >>]
                      ELSE [raised |-> "none",
                            df |-> SelectRows(dec, {r \in Range(dec) : r.AAAA < year_max_exclusive})]

\* load_city_df: raises KeyError for a city the configuration does not
\* hold, FileNotFoundError for a missing folder, ValueError (nothing to
\* concatenate) for a folder without CSV files, KeyError again for files
\* without the station column
load_city_df(city, cfg, dsk, order, year_max_exclusive) ==
    IF city \notin DOMAIN cfg.stations THEN [raised |-> "KeyError", df |-> << >>]
    ELSE LET folder == cfg.stations[city].folder
             station_name == cfg.stations[city].name
         IN  IF folder \notin DOMAIN dsk
             THEN [raised |-> "FileNotFoundError", df |-> << >>]
             ELSE IF order = << >>
             THEN [raised |-> "ValueError", df |-> << >>]
             ELSE LET raw == Concat([i \in 1..Len(order) |-> dsk[folder][order[i]].rows])
                  IN  IF ~HasColumn(raw, "NOM_USUEL")
                      THEN [raised |-> "KeyError", df |-> << >>]
                      ELSE
                  LET own == SelectRows(raw, {r \in Range(raw) : "NOM_USUEL" \in DOMAIN r
                                                                  /\ r.NOM_USUEL = station_name})
                      dec == [i \in 1..Len(own) |-> Decorate(own[i], map_mois(own[i].AAAAMM % 100))]
                  IN  [raised |-> "none",
                       df |-> SelectRows(dec, {r \in Range(dec) : r.AAAA < year_max_exclusive})]

(***************************************************************************)
(* AGG_SPEC, add_ma5, build_yearly, build_monthly.                         *)
(***************************************************************************)
\* add_ma5 defaults
Window == 5
MinPeriods == 5

\* df[col] = value, for every row
WithColumn(row, col, value) ==
    [c \in (DOMAIN row) \cup {col} |-> IF c = col THEN value ELSE row[c]]

\* the sort key of a row: its order_cols, station names by rank
KeyOf(row, cols) ==
    [i \in 1..Len(cols) |->
        IF cols[i] = "NOM_USUEL" THEN StationRank(row.NOM_USUEL) ELSE row[cols[i]]]

RECURSIVE InsertBy(_, _, _)
InsertBy(x, sorted, cols) ==
    IF sorted = << >> THEN <<x>>
    ELSE IF LexLess(KeyOf(Head(sorted), cols), KeyOf(x, cols))
         THEN <<Head(sorted)>> \o InsertBy(x, Tail(sorted), cols)
         ELSE <<x>> \o sorted

\* a table left in the order it came in
sort_values_skipped(df, cols) == df

\* df.sort_values(cols): ascending, rows of equal key in their first order
RECURSIVE sort_values(_, _)
sort_values(df, cols) ==
    IF df = << >> THEN << >>
    ELSE InsertBy(Head(df), sort_values(Tail(df), cols), cols)

\* the last n elements of a sequence
LastN(seq, n) == SubSeq(seq, IF Len(seq) > n THEN Len(seq) - n + 1 ELSE 1, Len(seq))

\* a rolling mean that needs one value only (min_periods left at 1)
RollingMeanAnyHistory(sorted, i, value_col, group_col, window, min_periods) ==
    LET upto == SubSeq(sorted, 1, i)
        mine == SelectRows(upto, {r \in Range(upto) : r[group_col] = sorted[i][group_col]})
        v == Present(LastN(Column(mine, value_col), window))
    IN  IF Len(v) >= 1 THEN Some(RoundDiv(SumOf(v), Len(v))) ELSE Null

\* rolling(window, min_periods).mean().round(1) at row i of a sorted table,
\* within the rows of row i's group
RollingMean(sorted, i, value_col, group_col, window, min_periods) ==
    LET upto == SubSeq(sorted, 1, i)
        mine == SelectRows(upto, {r \in Range(upto) : r[group_col] = sorted[i][group_col]})
        cells == LastN(Column(mine, value_col), window)
        v == Present(cells)
    IN  IF Len(v) >= min_periods /\ Len(v) > 0
        THEN Some(RoundDiv(SumOf(v), Len(v)))
        ELSE Null

\* add_ma5(df, value_col="TMM", group_col="NOM_USUEL", order_cols, 5, 5)
add_ma5(df, order_cols) ==
    LET sorted == sort_values(df, order_cols)
    IN  [i \in 1..Len(sorted) |->
            WithColumn(sorted[i], "TMM_ma5",
                       RollingMean(sorted, i, "TMM", "NOM_USUEL", Window, MinPeriods))]

\* .agg(**AGG_SPEC).round({'TMM': 1}) over the rows of one group
Aggregate(rows) ==
    [TMM |-> MeanRounded(Column(rows, "TMM")),
     TXAB |-> MaxOf(Column(rows, "TXAB")),
     TXMIN |-> MinOf(Column(rows, "TXMIN")),
     NBJTX25 |-> SumOf(Column(rows, "NBJTX25")),
     RR |-> SumOf(Column(rows, "RR")),
     RRAB |-> MaxOf(Column(rows, "RRAB"))]

YearlyKey(r) == <<r.AAAA, StationRank(r.NOM_USUEL)>>

\* df.groupby(['AAAA', 'NOM_USUEL'], as_index=False).agg(...): one row per
\* key, keys ascending
GroupYearly(df) ==
    LET keys == SortedTuples({YearlyKey(r) : r \in Range(df)})
    IN  [i \in 1..Len(keys) |->
            LET rows == SelectRows(df, {r \in Range(df) : YearlyKey(r) = keys[i]})
                a == Aggregate(rows)
            IN  [AAAA |-> keys[i][1], NOM_USUEL |-> StationNames[keys[i][2]],
                 TMM |-> a.TMM, TXAB |-> a.TXAB, TXMIN |-> a.TXMIN,
                 NBJTX25 |-> a.NBJTX25, RR |-> a.RR, RRAB |-> a.RRAB]]

build_yearly(df) == add_ma5(GroupYearly(df), <<"NOM_USUEL", "AAAA">>)

\* MOIS is a function of MM: ordering by (AAAA, MM, MOIS, NOM_USUEL) is
\* ordering by (AAAA, MM, NOM_USUEL)
MonthlyKey(r) == <<r.AAAA, r.MM, StationRank(r.NOM_USUEL)>>

\* a groupby that keeps the rows whose MOIS is NaN (dropna=False)
monthly_groupby_rows_keepna(df) == df

\* groupby drops the rows that hold NaN in a key column (dropna=True):
\* here, the rows whose month has no name
monthly_groupby_rows(df) == SelectRows(df, {r \in Range(df) : r.MOIS # Null})

\* df.groupby(['AAAA', 'MM', 'MOIS', 'NOM_USUEL'], as_index=False).agg(...)
GroupMonthly(df) ==
    LET kept == monthly_groupby_rows(df)
        keys == SortedTuples({MonthlyKey(r) : r \in Range(kept)})
    IN  [i \in 1..Len(keys) |->
            LET rows == SelectRows(kept, {r \in Range(kept) : MonthlyKey(r) = keys[i]})
                a == Aggregate(rows)
            IN  [AAAA |-> keys[i][1], MM |-> keys[i][2], MOIS |-> rows[1].MOIS,
                 NOM_USUEL |-> StationNames[keys[i][3]],
                 TMM |-> a.TMM, TXAB |-> a.TXAB, TXMIN |-> a.TXMIN,
                 NBJTX25 |-> a.NBJTX25, RR |-> a.RR, RRAB |-> a.RRAB]]

build_monthly(df) == add_ma5(GroupMonthly(df), <<"NOM_USUEL", "AAAA", "MM">>)

\* df['ville'] = city
TagCity(df, city) == [i \in 1..Len(df) |-> WithColumn(df[i], "ville", city)]

(***************************************************************************)
(* The inputs of a build_datasets run.                                     *)
(***************************************************************************)
\* length of the --cities list
MaxCities == 2
\* irregularities present together in the Paris files
MaxToggles == 2

RawRow(station, code, tmm, rr) ==
    [NOM_USUEL |-> station, AAAAMM |-> code, TMM |-> tmm, TXAB |-> tmm[1] + 90,
     TXMIN |-> tmm[1] - 80, NBJTX25 |-> code % 3, RR |-> rr, RRAB |-> rr \div 2]
RawRowNoTmm(station, code, rr) ==
    [NOM_USUEL |-> station, AAAAMM |-> code, TMM |-> Null, TXAB |-> 210,
     TXMIN |-> -35, NBJTX25 |-> 0, RR |-> rr, RRAB |-> rr \div 2]

Toggles == {"bad_month", "null_tmm", "extraneous", "over_cutoff", "duplicate"}
ToggleSets == {T \in SUBSET Toggles : Cardinality(T) <= MaxToggles}

\* the rows of station ORLY (Paris), one per January of 2019..2024, and the
\* irregular rows the toggles add
ParisRows(T) ==
    << RawRow("ORLY", 201901, Some(112), 405),
       RawRow("ORLY", 202001, Some(121), 380),
       IF "null_tmm" \in T THEN RawRowNoTmm("ORLY", 202101, 290)
                           ELSE RawRow("ORLY", 202101, Some(118), 290),
       RawRow("ORLY", 202201, Some(130), 510),
       RawRow("ORLY", 202301, Some(125), 333),
       RawRow("ORLY", 202401, Some(127), 421) >>
    \o (IF "bad_month" \in T THEN <<RawRow("ORLY", 202013, Some(99), 100)>> ELSE << >>)
    \o (IF "extraneous" \in T THEN <<RawRow("ROISSY", 202001, Some(101), 377)>> ELSE << >>)
    \o (IF "over_cutoff" \in T THEN <<RawRow("ORLY", 202601, Some(140), 120)>> ELSE << >>)
    \o (IF "duplicate" \in T THEN <<RawRow("ORLY", 202001, Some(124), 20),
                                    RawRow("ORLY", 202402, Some(60), 55)>> ELSE << >>)

Reverse(seq) == [i \in 1..Len(seq) |-> seq[Len(seq) + 1 - i]]

CsvFile(rows) == [csv |-> TRUE, rows |-> rows]
OtherFile == [csv |-> FALSE, rows |-> << >>]

\* how the rows lie in the folder: one file in time order, one file in
\* reverse order, or two CSV files (and a file that is no CSV)
Arrangements == {"sorted", "reversed", "split"}
ParisFolder(T, a) ==
    LET rows == ParisRows(T)
        h == Len(rows) \div 2
    IN  CASE a = "sorted" -> <<CsvFile(rows)>>
          [] a = "reversed" -> <<CsvFile(Reverse(rows))>>
          [] OTHER -> <<CsvFile(Reverse(SubSeq(rows, h + 1, Len(rows)))), OtherFile,
                        CsvFile(SubSeq(rows, 1, h))>>

LyonFolder ==
    << CsvFile(<< RawRow("BRON", 202002, Some(95), 610),
                  RawRow("ORLY", 202001, Some(121), 380),
                  RawRow("BRON", 201912, Some(71), 480) >>) >>

\* a Lyon file whose header lacks the NOM_USUEL column
LyonFolderNoStation ==
    << CsvFile(<< [AAAAMM |-> 202002, TMM |-> Some(95), TXAB |-> 185, TXMIN |-> 15,
                   NBJTX25 |-> 0, RR |-> 610, RRAB |-> 305] >>) >>

\* Lyon: configured and present, absent from the configuration, configured
\* with a folder that does not exist, with a folder holding no CSV file, or
\* with a file that lacks the station column; "nostations" is a
\* configuration that holds no station at all
LyonStates == {"ok", "unconfigured", "nofolder", "nocsv", "nocolumn", "nostations"}

ConfigFor(lyon) ==
    [stations |->
        [c \in (CASE lyon = "nostations" -> {}
                  [] lyon = "unconfigured" -> {"Paris"}
                  [] OTHER -> {"Paris", "Lyon"}) |->
            IF c = "Paris" THEN [folder |-> "paris", name |-> "ORLY"]
                           ELSE [folder |-> "lyon", name |-> "BRON"]],
     keys |-> CASE lyon = "nostations" -> << >>
                [] lyon = "unconfigured" -> <<"Paris">>
                [] OTHER -> <<"Paris", "Lyon">>]

DiskFor(T, a, lyon) ==
    [f \in (IF lyon = "nofolder" THEN {"paris"} ELSE {"paris", "lyon"}) |->
        IF f = "paris" THEN ParisFolder(T, a)
        ELSE IF lyon = "nocsv" THEN <<OtherFile>>
        ELSE IF lyon = "nocolumn" THEN LyonFolderNoStation ELSE LyonFolder]

\* one comma-separated piece of --cities: a name (or nothing), with or
\* without blanks around it
Pieces == {[name |-> "Paris", pad |-> FALSE], [name |-> "Lyon", pad |-> TRUE],
           [name |-> "", pad |-> TRUE], [name |-> "", pad |-> FALSE]}
PieceLists == UNION {[1..n -> Pieces] : n \in 1..MaxCities}
CityOptions == {NoOption} \cup {[given |-> TRUE, parts |-> ps] : ps \in PieceLists}

\* what an earlier run left in an output file
OldTable == << [ville |-> "Old"] >>
OutFiles == {MissingFile, [exists |-> TRUE, rows |-> OldTable, badAt |-> 0]}

(***************************************************************************)
(* build_cmd (pipelines/cli/main.py).                                      *)
(***************************************************************************)
\* c.strip()
Strip(piece) == piece.name

\* `if cities:` -- the option was given and is not the empty string
OptionTruthy(opt) ==
    opt.given /\ ~(Len(opt.parts) = 1 /\ opt.parts[1].name = "" /\ ~opt.parts[1].pad)

RECURSIVE KeepNonEmpty(_)
KeepNonEmpty(names) ==
    IF names = << >> THEN << >>
    ELSE (IF Head(names) # "" THEN <<Head(names)>> ELSE << >>) \o KeepNonEmpty(Tail(names))

\* [c.strip() for c in cities.split(",") if c.strip()], or every city of
\* config["stations"]
resolve_cities(opt, cfg) ==
    IF OptionTruthy(opt)
    THEN KeepNonEmpty([i \in 1..Len(opt.parts) |-> Strip(opt.parts[i])])
    ELSE cfg.keys

\* the indices of the folder's files whose suffix is .csv
CsvIndices(files) == {i \in 1..Len(files) : files[i].csv}

\* the orders in which iterdir may list the CSV files of the city's folder
FileOrders(city, cfg, dsk) ==
    IF city \notin DOMAIN cfg.stations \/ cfg.stations[city].folder \notin DOMAIN dsk
    THEN {<< >>}
    ELSE LET idx == CsvIndices(dsk[cfg.stations[city].folder])
         IN  {o \in [1..Cardinality(idx) -> idx] :
                 \A i, j \in 1..Cardinality(idx) : i # j => o[i] # o[j]}

\* a command that goes on with whatever list it resolved
no_cities_unchecked(cl) == FALSE

\* `if not cities_list`
no_cities(cl) == cl = << >>

\* the run starts: the city list is resolved; an empty list ends the run
\* with a ClickException, otherwise the output directory is created
BuildStart ==
    /\ bpc = "start"
    /\ LET cl == resolve_cities(cities_opt, config)
       IN  /\ cities_list' = cl
           /\ IF no_cities(cl)
              THEN bpc' = "failed" /\ berr' = "ClickException" /\ UNCHANGED out_dir
              ELSE bpc' = "loop" /\ out_dir' = TRUE /\ UNCHANGED berr
    /\ UNCHANGED <<cities_opt, config, disk, yearly_out, monthly_out,
                   yearly_frames, monthly_frames, loads>>
    /\ UNCHANGED <<wsVars, cacheVars>>

\* a loop that catches a city's exception and goes on with the next city
after_city_failure_isolated == "loop"

\* the loop body is in no try block: an exception raised for one city ends
\* the command
after_city_failure == "failed"

\* one turn of the loop over cities_list: load the city, build and tag its
\* two tables, append them; an exception leaves the loop and the command
BuildCity ==
    /\ bpc = "loop"
    /\ Len(loads) < Len(cities_list)
    /\ LET city == cities_list[Len(loads) + 1]
       IN  \E order \in FileOrders(city, config, disk) :
             LET r == load_city_df(city, config, disk, order, YearMaxDefault)
             IN  /\ loads' = Append(loads, city)
                 /\ IF r.raised # "none"
                    THEN /\ bpc' = after_city_failure
                         /\ berr' = r.raised
                         /\ UNCHANGED <<yearly_frames, monthly_frames>>
                    ELSE /\ yearly_frames' = Append(yearly_frames, TagCity(build_yearly(r.df), city))
                         /\ monthly_frames' = Append(monthly_frames, TagCity(build_monthly(r.df), city))
                         /\ UNCHANGED <<bpc, berr>>
    /\ UNCHANGED <<cities_opt, config, disk, yearly_out, monthly_out, out_dir, cities_list>>
    /\ UNCHANGED <<wsVars, cacheVars>>

\* frames put together last city first
concat_frames_reversed(frames) == Concat(Reverse(frames))

\* pd.concat(frames, ignore_index=True)
concat_frames(frames) == Concat(frames)

\* after the loop: concatenate the frames and write both files
BuildWrite ==
    /\ bpc = "loop"
    /\ Len(loads) = Len(cities_list)
    /\ yearly_out' = [exists |-> TRUE, rows |-> concat_frames(yearly_frames), badAt |-> 0]
    /\ monthly_out' = [exists |-> TRUE, rows |-> concat_frames(monthly_frames), badAt |-> 0]
    /\ bpc' = "done"
    /\ UNCHANGED <<cities_opt, config, disk, out_dir, berr, cities_list,
                   yearly_frames, monthly_frames, loads>>
    /\ UNCHANGED <<wsVars, cacheVars>>

InitBuild ==
    /\ cities_opt \in CityOptions
    /\ \E T \in ToggleSets : \E a \in Arrangements : \E lyon \in LyonStates :
          /\ config = ConfigFor(lyon)
          /\ disk = DiskFor(T, a, lyon)
    /\ \E f \in OutFiles : yearly_out = f /\ monthly_out = f
    /\ out_dir \in BOOLEAN
    /\ bpc = "start"
    /\ berr = "none"
    /\ cities_list = << >>
    /\ yearly_frames = << >>
    /\ monthly_frames = << >>
    /\ loads = << >>

BuildNext ==
    \/ BuildStart
    \/ BuildCity
    \/ BuildWrite

\* no websocket traffic
WsIdle == WsInit("services")

\* no build_datasets run
BuildIdle ==
    /\ cities_opt = NoOption
    /\ config = [stations |-> << >>, keys |-> << >>]
    /\ disk = << >>
    /\ yearly_out = MissingFile
    /\ monthly_out = MissingFile
    /\ out_dir = FALSE
    /\ bpc = "start"
    /\ berr = "none"
    /\ cities_list = << >>
    /\ yearly_frames = << >>
    /\ monthly_frames = << >>
    /\ loads = << >>

\* the application of app/main.py
InitMain == WsInit("main") /\ CacheIdle /\ BuildIdle
SpecMain == InitMain /\ [][WsNext]_vars

\* the same handlers over the manager of app/services/websocket.py
InitServices == WsInit("services") /\ CacheIdle /\ BuildIdle
SpecServices == InitServices /\ [][WsNext]_vars

\* either application: the handlers over one manager class or the other
InitEither == (\E m \in Managers : WsInit(m)) /\ CacheIdle /\ BuildIdle
SpecEither == InitEither /\ [][WsNext]_vars

\* a web process serving GET /annual_data and GET /monthly_data
InitCacheSpec == WsIdle /\ InitCache /\ BuildIdle
SpecCache == InitCacheSpec /\ [][CacheNext]_vars

\* one run of the build_datasets command
InitBuildSpec == WsIdle /\ CacheIdle /\ InitBuild
SpecBuild == InitBuildSpec /\ [][BuildNext]_vars

(***************************************************************************)
(* Claims about the websocket registry.                                    *)
(***************************************************************************)
\* task t leaves broadcast() in this step (it returns or raises)
BroadcastEnds(t) == pc[t] = "send" /\ pc'[t] # "send"

\* C2: removing a connection is ignore-if-absent: neither disconnect() nor
\* the pruning loop of broadcast() raises when the connection is already
\* gone, under any interleaving of connect, disconnect and broadcast, and a
\* removal of an absent connection leaves the registry as it was.
C2_RemovalIgnoresAbsent ==
    [][ /\ \A t \in Tasks : err'[t] = "none"
        /\ \A w \in Sockets :
              (/\ pc[w] = "receive" /\ client[w] = "closed" /\ pc'[w] # "receive"
               /\ ~InList(w, active_connections))
              => active_connections' = active_connections
        /\ \A t \in Tasks :
              (BroadcastEnds(t) /\ \A k \in 1..Len(ret'.failed) :
                                      ~InList(ret'.failed[k], ret'.before))
              => active_connections' = ret'.before ]_vars

\* C5: a handler whose client has disconnected removes it from the registry
\* and sends "A client left the chat" to every client still registered; the
\* server keeps serving: a text from a remaining client is broadcast back to
\* it.  This holds for any interleaving with other handlers' broadcasts.
C5_DisconnectAnnounced ==
    [][ \A w \in Sockets :
          /\ (pc[w] = "receive" /\ client[w] = "closed" /\ pc'[w] # "receive")
             => (pc'[w] # "failed" /\ ~InList(w, active_connections'))
          /\ (BroadcastEnds(w) /\ bmsg[w][1] = "left")
             => /\ pc'[w] = "done"
                /\ \A k \in 1..Len(active_connections') :
                      InList(active_connections'[k], ret'.sent)
          /\ (BroadcastEnds(w) /\ bmsg[w][1] = "says")
             => /\ pc'[w] = "receive"
                /\ InList(w, active_connections') => InList(w, ret'.sent) ]_vars

\* C6: a send that fails during broadcast() is skipped, not propagated: the
\* loop still runs over the rest of the registry (the iterator is exhausted
\* when broadcast ends) and broadcast returns normally to its caller,
\* whatever the number and position of the failing connections.
C6_FailedSendSkipped ==
    [][ \A t \in Tasks :
          BroadcastEnds(t)
          => /\ ~ret'.raised
             /\ Len(ret'.sent) >= Len(ret'.before)
             /\ pc'[t] = AfterBroadcast(bmsg[t]) ]_vars

(***************************************************************************)
(* Claims about the read-side caches.                                      *)
(***************************************************************************)
\* get_annual_data (k = "annual") or get_monthly_data is called in this step
Called(k) == calls'[k] = calls[k] + 1

CacheOfNext(k) == IF k = "annual" THEN annual_data_cache' ELSE monthly_data_cache'

\* C3: the cache of a table is populated at most once per process: the cache
\* variable is assigned at most once, and every call made once it is set
\* returns the cached table without opening the file, whatever the file has
\* become meanwhile.
C3_CachePopulatedOnce ==
    [][ \A k \in Kinds :
          /\ assigns'[k] <= 1
          /\ (Called(k) /\ CacheOf(k).loaded)
             => /\ opens'[k] = opens[k]
                /\ ~last'.raised
                /\ last'.value = CacheOf(k).table
                /\ CacheOfNext(k) = CacheOf(k) ]_vars

\* a third call served from the cache after one load, the file having
\* changed since it was read
C3_Witness ==
    \E k \in Kinds :
        /\ last.kind = k /\ ~last.opened /\ ~last.raised
        /\ calls[k] = MaxCalls /\ opens[k] = 1 /\ assigns[k] = 1
        /\ ~FileOf(k).exists

\* C4: when loading fails (the file is missing, or reading fails part-way),
\* the failure reaches the caller of get_annual_data / get_monthly_data, the
\* cache stays unset, and the next call attempts the load again.
C4_FailedLoadNotCached ==
    [][ \A k \in Kinds :
          (Called(k) /\ ~CacheOf(k).loaded)
          => /\ opens'[k] = opens[k] + 1
             /\ last'.opened
             /\ (~FileOf(k).exists \/ FileOf(k).badAt > 0)
                => /\ last'.raised
                   /\ CacheOfNext(k) = None
                   /\ assigns'[k] = assigns[k] ]_vars

\* a second attempt that failed part-way through the rows, after a first
\* failure
C4_Witness ==
    \E k \in Kinds :
        /\ last.kind = k /\ last.opened /\ last.raised
        /\ opens[k] >= 2 /\ assigns[k] = 0 /\ CacheOf(k) = None
        /\ FileOf(k).exists /\ FileOf(k).badAt = 2

(***************************************************************************)
(* Claims about the pipeline.                                              *)
(***************************************************************************)
\* the raw rows of a city's station, whatever file they lie in
StationRows(city) ==
    IF city \notin DOMAIN config.stations \/ config.stations[city].folder \notin DOMAIN disk
    THEN {}
    ELSE LET files == disk[config.stations[city].folder]
         IN  {r \in UNION {Range(files[i].rows) : i \in CsvIndices(files)} :
                 r.NOM_USUEL = config.stations[city].name}

\* those the year cutoff keeps
KeptRows(city) == {r \in StationRows(city) : r.AAAAMM \div 100 < YearMaxDefault}

\* the first position of frame i in the concatenated table, less one
RECURSIVE Offset(_, _)
Offset(frames, i) == IF i <= 1 THEN 0 ELSE Offset(frames, i - 1) + Len(frames[i - 1])

\* C1: if loading or aggregating one city of the list fails, the run aborts
\* at that city: no later city is processed, the failure reaches the caller,
\* and neither output file is written or modified.
C1_FailureAborts ==
    /\ [](berr \notin {"none", "ClickException"}
          => /\ bpc = "failed"
             /\ loads = SubSeq(cities_list, 1, Len(yearly_frames) + 1)
             /\ Len(monthly_frames) = Len(yearly_frames)
             /\ yearly_out \in OutFiles /\ monthly_out \in OutFiles)
    /\ [][bpc' = "failed" => (yearly_out' = yearly_out /\ monthly_out' = monthly_out)]_vars

\* the second city of the list fails after the first was built, and the
\* files of an earlier run are still there
C1_Witness ==
    /\ bpc = "failed" /\ berr = "FileNotFoundError"
    /\ Len(cities_list) = 2 /\ Len(loads) = 2 /\ Len(yearly_frames) = 1
    /\ Len(yearly_frames[1]) > 0
    /\ yearly_out.exists /\ yearly_out.rows = OldTable /\ monthly_out = yearly_out

\* rows k-1 and k of a table are in (station, year[, month]) order
Ascending(T, k, cols) == LexLess(KeyOf(T[k - 1], cols), KeyOf(T[k], cols))

OrderedByCity(T, frames, cols) ==
    /\ Len(T) = Offset(frames, Len(frames) + 1)
    /\ \A i \in 1..Len(cities_list) :
          \A k \in (Offset(frames, i) + 1)..Offset(frames, i + 1) :
              /\ T[k].ville = cities_list[i]
              /\ T[k].NOM_USUEL = config.stations[cities_list[i]].name
              /\ k > Offset(frames, i) + 1 => Ascending(T, k, cols)

\* C7: in both final tables the rows of the city at position i of the list
\* come before those of the city at position j > i, every row carries the
\* identifier of the city it was built from, and within one city the rows
\* are in the enricher's order: by station, year (and month).
C7_RowOrderFollowsCityList ==
    bpc = "done"
    => /\ Len(yearly_frames) = Len(cities_list)
       /\ Len(monthly_frames) = Len(cities_list)
       /\ OrderedByCity(yearly_out.rows, yearly_frames, <<"NOM_USUEL", "AAAA">>)
       /\ OrderedByCity(monthly_out.rows, monthly_frames, <<"NOM_USUEL", "AAAA", "MM">>)

\* Lyon then Paris, Paris read from two files listed second file first
C7_Witness ==
    /\ bpc = "done" /\ cities_list = <<"Lyon", "Paris">>
    /\ Len(disk["paris"]) = 3
    /\ Len(yearly_out.rows) >= 8 /\ Len(monthly_out.rows) >= 8
    /\ yearly_out.rows[1].ville = "Lyon" /\ yearly_out.rows[3].ville = "Paris"

\* C8: if a raw row of the configured station has a year-month code whose
\* month part is outside 1..12, loading that city fails with an error; it
\* returns no table.
C8_BadMonthFailsLoudly ==
    \A i \in 1..Len(loads) :
        (\E r \in StationRows(loads[i]) : r.AAAAMM % 100 \notin 1..12)
        => (bpc = "failed" /\ Len(yearly_frames) < i)

\* C9: build_yearly returns exactly one row per distinct (year, station)
\* pair of the loaded table, build_monthly exactly one row per distinct
\* (year, month, station) triple: no group is dropped, none is added.
C9_OneRowPerGroup ==
    \A i \in 1..Len(yearly_frames) :
        /\ {<<r.AAAA, r.NOM_USUEL>> : r \in Range(yearly_frames[i])}
             = {<<r.AAAAMM \div 100, r.NOM_USUEL>> : r \in KeptRows(loads[i])}
        /\ Len(yearly_frames[i])
             = Cardinality({<<r.AAAAMM \div 100, r.NOM_USUEL>> : r \in KeptRows(loads[i])})
        /\ {<<r.AAAA, r.MM, r.NOM_USUEL>> : r \in Range(monthly_frames[i])}
             = {<<r.AAAAMM \div 100, r.AAAAMM % 100, r.NOM_USUEL>> : r \in KeptRows(loads[i])}
        /\ Len(monthly_frames[i])
             = Cardinality({<<r.AAAAMM \div 100, r.AAAAMM % 100, r.NOM_USUEL>> :
                              r \in KeptRows(loads[i])})

\* one frame is one station group; its rows are in time order
Chronological(F, cols) == \A k \in 2..Len(F) : Ascending(F, k, cols)

\* C10, as claimed: in time order, the moving average is undefined for the
\* first min_periods - 1 rows of a station group and defined for every
\* later row.
C10_DefinedAfterMinPeriods ==
    \A F \in Range(yearly_frames) \cup Range(monthly_frames) :
        \A k \in 1..Len(F) : (F[k].TMM_ma5 # Null) <=> (k >= 5)

\* C10, amended: in time order, the moving average is undefined for the
\* first min_periods - 1 rows of a station group; a later row has one
\* exactly when the window rows ending at it all hold a mean temperature.
\* The files' row order and the order the files are listed in play no part.
C10_DefinedWhenWindowFull ==
    /\ \A F \in Range(yearly_frames) : Chronological(F, <<"NOM_USUEL", "AAAA">>)
    /\ \A F \in Range(monthly_frames) : Chronological(F, <<"NOM_USUEL", "AAAA", "MM">>)
    /\ \A F \in Range(yearly_frames) \cup Range(monthly_frames) :
          \A k \in 1..Len(F) :
              (F[k].TMM_ma5 # Null)
              <=> (k >= 5 /\ \A j \in (k - 4)..k : F[j].TMM # Null)

\* Paris read from two files listed second file first: its sixth yearly row
\* has a moving average, its fourth has none
C10_Witness ==
    \E i \in 1..Len(yearly_frames) :
        /\ loads[i] = "Paris" /\ Len(disk["paris"]) = 3
        /\ Len(yearly_frames[i]) = 6 /\ Len(monthly_frames[i]) >= 7
        /\ yearly_frames[i][6].TMM_ma5 # Null /\ yearly_frames[i][4].TMM_ma5 = Null
        /\ monthly_frames[i][7].TMM_ma5 # Null

\* the tables build_cmd builds for a city when iterdir lists the city's CSV
\* files in the given order
CityYearly(city, order) ==
    TagCity(build_yearly(load_city_df(city, config, disk, order, YearMaxDefault).df), city)
CityMonthly(city, order) ==
    TagCity(build_monthly(load_city_df(city, config, disk, order, YearMaxDefault).df), city)

CityInTurn == cities_list[Len(loads) + 1]

\* what load_city_df raises when the city is configured and the failure
\* lies in its folder or its files (missing folder, no CSV file, no
\* station column)
OtherLoadFailures ==
    {LET cfg == ConfigFor(l)
         dsk == DiskFor({}, "sorted", l)
     IN  load_city_df("Lyon", cfg, dsk, CHOOSE o \in FileOrders("Lyon", cfg, dsk) : TRUE,
                      YearMaxDefault).raised : l \in {"nofolder", "nocsv", "nocolumn"}}

\* the built-in exceptions of a failed subscript or a failed call, which
\* say nothing of the configuration
GenericExceptions == {"KeyError", "ValueError"}

\* C12: loading a city that the configuration mapping does not hold fails
\* with a configuration error: not a generic exception, and not the one a
\* data-access or malformed-input failure raises; it fails the same way
\* whatever the folders hold (no file is read first).
C12_MissingCityIsConfigError ==
    [][(bpc = "loop" /\ loads' # loads /\ CityInTurn \notin DOMAIN config.stations)
        => /\ berr' # "none"
           /\ berr' \notin GenericExceptions
           /\ berr' \notin OtherLoadFailures
           /\ \A l \in LyonStates :
                 load_city_df(CityInTurn, config, DiskFor({}, "sorted", l), << >>,
                              YearMaxDefault).raised = berr']_vars

\* C13: when the resolved city list is empty (--cities holds only commas
\* and blanks, or it is not given, or given empty, and the configuration
\* has no stations), the command ends with a ClickException (a message
\* and a non-zero exit status), no city is ever loaded, the output
\* directory is not created and neither output file is written.
C13_EmptyCityListFails ==
    /\ [](resolve_cities(cities_opt, config) = << >>
            => /\ loads = << >>
               /\ yearly_frames = << >> /\ monthly_frames = << >>
               /\ bpc \in {"start", "failed"}
               /\ bpc = "failed" => berr = "ClickException")
    /\ [][resolve_cities(cities_opt, config) = << >>
            => /\ bpc' = "failed"
               /\ yearly_out' = yearly_out /\ monthly_out' = monthly_out
               /\ out_dir' = out_dir]_vars

\* the command has failed on --cities " , " with a configuration that has
\* stations, and on an omitted --cities with a configuration that has none
C13_Witness ==
    /\ bpc = "failed" /\ berr = "ClickException"
    /\ \/ /\ cities_opt.given /\ Len(cities_opt.parts) = 2
          /\ cities_opt.parts[1].pad /\ config.keys # << >>
       \/ ~cities_opt.given /\ config.keys = << >>

\* C14: when broadcast() returns, no connection whose send raised during
\* that broadcast is still registered, and the broadcast has removed no
\* other connection: every connection that was registered when the send
\* loop ended and whose send did not raise is still registered.  Handlers
\* that connect or disconnect while the broadcast is suspended on a send
\* do not change this.
C14_PruneExactlyFailed ==
    [][ \A t \in Tasks :
          (BroadcastEnds(t) /\ ~ret'.raised)
          => /\ \A k \in 1..Len(ret'.failed) :
                   ~InList(ret'.failed[k], active_connections')
             /\ \A k \in 1..Len(ret'.before) :
                   InList(ret'.before[k], ret'.failed)
                   \/ InList(ret'.before[k], active_connections')
             /\ \A k \in 1..Len(active_connections') :
                   InList(active_connections'[k], ret'.before) ]_vars

\* a broadcast has returned after one send that raised and one that
\* succeeded: the first connection is gone, the second is still registered
C14_Witness ==
    /\ ret.task # 0 /\ ~ret.raised
    /\ Len(ret.failed) = 1 /\ Len(ret.sent) = 2
    /\ ~InList(ret.failed[1], active_connections)
    /\ \E k \in 1..2 : /\ ~InList(ret.sent[k], ret.failed)
                        /\ InList(ret.sent[k], active_connections)

\* how many times connection c was sent to
TimesSent(c, sent) == Cardinality({k \in 1..Len(sent) : sent[k] = c})

\* C15: every connection that is registered for the whole duration of a
\* broadcast() call is sent the message exactly once, whatever other
\* connections are added or removed while the broadcast is suspended on a
\* send.  A connection is registered once and never again after its
\* removal, so the connections registered throughout are those registered
\* both when the broadcast began and when its send loop ended.
C15_EachStayingConnectionSentOnce ==
    [][ \A t \in Tasks :
          (ret' # ret /\ ret'.task = t)
          => \A c \in Sockets :
                (InList(c, ret'.start) /\ InList(c, ret'.before))
                => TimesSent(c, ret'.sent) = 1 ]_vars

====
